---- MODULE Spec2Model ----
(***************************************************************************)
(* Model of hmc_inventory.py: the HMC session client (PowerHMC), the XML   *)
(* namespace pre-pass (xml_parse) and the cache controller (HmcInventory). *)
(*                                                                         *)
(* Strings are sequences of code points, so that str.strip() and the       *)
(* ordering used by list.sort() are computed, not assumed.  An XML element *)
(* is a record [tag, text, children]; its tag is the pair <<ns, local>>    *)
(* that ElementTree writes "{ns}local" (ns = "" when the element has no    *)
(* namespace).  ElementTree's .text is None exactly when the element has   *)
(* no character data, so None is the empty text <<>>.                      *)
(***************************************************************************)
EXTENDS Integers, Sequences, FiniteSets, TLC

(* ---------------------------- bounds ----------------------------------- *)
MaxText == 2      \* longest X-API-Session text drawn for a logon response
MaxFeed == 3      \* most entries drawn for a feed of well-formed entries
MaxMixed == 2     \* most entries drawn for a feed that mixes in malformed entries
MaxTime == 2      \* clock values 0..MaxTime for marker mtime and time()
MaxCalls == 4     \* calls a caller makes on one PowerHMC after constructing it
MaxRuns == 2      \* invocations in a row on one cache directory
MaxRunFeed == 2   \* most entries of a feed in those invocations

(* ---------------------------- strings ---------------------------------- *)
SP == 32          \* " "
NoneText == << >>  \* ElementTree .text of an element without character data
EmptyStr == << >>  \* the Python string ""

IsSpace(c) == c = SP

RECURSIVE lstrip(_)
lstrip(s) == IF s = << >> THEN s
             ELSE IF IsSpace(Head(s)) THEN lstrip(Tail(s)) ELSE s

RECURSIVE rstrip(_)
rstrip(s) == IF s = << >> THEN s
             ELSE IF IsSpace(s[Len(s)]) THEN rstrip(SubSeq(s, 1, Len(s) - 1)) ELSE s

\* str.strip(): leading and trailing whitespace removed, interior kept
strip(s) == rstrip(lstrip(s))

\* str.__lt__: lexicographic order on code points, a proper prefix is smaller
RECURSIVE StrLess(_, _)
StrLess(a, b) ==
  IF b = << >> THEN FALSE
  ELSE IF a = << >> THEN TRUE
  ELSE IF Head(a) < Head(b) THEN TRUE
  ELSE IF Head(a) > Head(b) THEN FALSE
  ELSE StrLess(Tail(a), Tail(b))

(* ------------------------------ XML ------------------------------------ *)
AtomNS  == "http://www.w3.org/2005/Atom"
UomNS   == "http://www.ibm.com/xmlns/systems/power/firmware/uom/mc/2012_10/"
WebNS   == "http://www.ibm.com/xmlns/systems/power/firmware/web/mc/2012_10/"
OtherNS == "http://www.ibm.com/xmlns/systems/power/firmware/uom/mc/2019_01/"
NoNS    == ""

El(tag, text, children) == [tag |-> tag, text |-> text, children |-> children]

\* el.tag.rpartition('}') and the assignment under "if has_namespace"
StripTag(el) == IF el.tag[1] # NoNS THEN [el EXCEPT !.tag = <<NoNS, el.tag[2]>>] ELSE el

\* ET.fromstring alone, tags left as "{ns}local"
xml_parse_without_stripping(it) == it

\* xml_parse after ET.fromstring succeeded: "for el in it" visits the direct
\* children of the root, and only those
xml_parse(it) == [it EXCEPT !.children = [i \in DOMAIN it.children |-> StripTag(it.children[i])]]

\* Element.find(name): the first direct child whose tag string is name
RECURSIVE FindIdx(_, _, _)
FindIdx(children, name, i) ==
  IF i > Len(children) THEN 0
  ELSE IF children[i].tag = <<NoNS, name>> THEN i
  ELSE FindIdx(children, name, i + 1)

\* the children of every element of els that carry the tag, in document order
RECURSIVE Descend(_, _)
Descend(els, tag) ==
  IF els = << >> THEN << >>
  ELSE SelectSeq(Head(els).children, LAMBDA c : c.tag = tag) \o Descend(Tail(els), tag)

Texts(els) == [i \in DOMAIN els |-> els[i].text]

(* ------------------------------ sorting -------------------------------- *)
RECURSIVE Insert(_, _)
Insert(x, s) ==
  IF s = << >> THEN <<x>>
  ELSE IF StrLess(x, Head(s)) THEN <<x>> \o s
  ELSE <<Head(s)>> \o Insert(x, Tail(s))

\* the list left in feed order
sort_missing(s) == s

\* list.sort() on strings: ascending, stable
RECURSIVE Sort(_)
Sort(s) == IF s = << >> THEN s ELSE Insert(s[Len(s)], Sort(SubSeq(s, 1, Len(s) - 1)))

\* list.sort() compares every element of a list of two or more, and "<" is
\* not defined on None
SortRaises(s) == Len(s) >= 2 /\ \E i \in DOMAIN s : s[i] = NoneText

(* ------------------------- HMC session client -------------------------- *)
HTTP_OK == 200    \* requests.codes.ok

\* an HTTP exchange as the client sees it: the TLS handshake failed (requests
\* raises SSLError), or a status arrived with a body that ET.fromstring
\* either parses into root or rejects
Response(tls, status, parses, root) == [tls |-> tls, status |-> status, parses |-> parses, root |-> root]
NoElement  == El(<<NoNS, "">>, NoneText, << >>)
NoResponse == Response(FALSE, 0, FALSE, NoElement)

\* what a method call leaves behind: the client's fields, the requests it
\* sent, and how it ended (a return value or the exception that left it)
Outcome(session, logged_in, sent, ret) ==
  [session |-> session, logged_in |-> logged_in, sent |-> sent, ret |-> ret]

\* logon without the test of logged_in at its top
logon_without_guard(c, r) ==
  IF r.tls THEN Outcome(c.session, c.logged_in, <<"PUT">>, "SystemExit")
  ELSE IF r.status # HTTP_OK THEN Outcome(c.session, c.logged_in, <<"PUT">>, "False")
  ELSE IF ~r.parses THEN Outcome(c.session, c.logged_in, <<"PUT">>, "ParseError")
  ELSE LET xml == xml_parse(r.root)
           i   == FindIdx(xml.children, "X-API-Session", 1)
       IN  IF i = 0 THEN Outcome(c.session, c.logged_in, <<"PUT">>, "AttributeError")
           ELSE IF xml.children[i].text = NoneText
                THEN Outcome(c.session, c.logged_in, <<"PUT">>, "AttributeError")
           ELSE LET session == strip(xml.children[i].text)
                IN  IF session # EmptyStr
                    THEN Outcome(session, TRUE, <<"PUT">>, "True")
                    ELSE Outcome(session, c.logged_in, <<"PUT">>, "False")

\* PowerHMC.logon
logon(c, r) ==
  IF c.logged_in THEN Outcome(c.session, c.logged_in, << >>, "True")
  ELSE IF r.tls THEN Outcome(c.session, c.logged_in, <<"PUT">>, "SystemExit")
  ELSE IF r.status # HTTP_OK THEN Outcome(c.session, c.logged_in, <<"PUT">>, "False")
  ELSE IF ~r.parses THEN Outcome(c.session, c.logged_in, <<"PUT">>, "ParseError")
  ELSE LET xml == xml_parse(r.root)
           i   == FindIdx(xml.children, "X-API-Session", 1)
       IN  IF i = 0 THEN Outcome(c.session, c.logged_in, <<"PUT">>, "AttributeError")
           ELSE IF xml.children[i].text = NoneText
                THEN Outcome(c.session, c.logged_in, <<"PUT">>, "AttributeError")
           ELSE LET session == strip(xml.children[i].text)
                IN  IF session # EmptyStr
                    THEN Outcome(session, TRUE, <<"PUT">>, "True")
                    ELSE Outcome(session, c.logged_in, <<"PUT">>, "False")

\* logoff that clears the token but not the flag after the DELETE
logoff_forgetting_flag(c, r) ==
  IF ~c.logged_in THEN Outcome(c.session, c.logged_in, << >>, "True")
  ELSE IF c.session = EmptyStr THEN Outcome(c.session, FALSE, << >>, "True")
  ELSE IF r.tls THEN Outcome(c.session, c.logged_in, <<"DELETE">>, "SystemExit")
  ELSE IF r.status = HTTP_OK THEN Outcome(EmptyStr, c.logged_in, <<"DELETE">>, "True")
  ELSE Outcome(c.session, c.logged_in, <<"DELETE">>, "False")

\* logoff that clears the flag but not the token after the DELETE
logoff_keeping_token(c, r) ==
  IF ~c.logged_in THEN Outcome(c.session, c.logged_in, << >>, "True")
  ELSE IF c.session = EmptyStr THEN Outcome(c.session, FALSE, << >>, "True")
  ELSE IF r.tls THEN Outcome(c.session, c.logged_in, <<"DELETE">>, "SystemExit")
  ELSE IF r.status = HTTP_OK THEN Outcome(c.session, FALSE, <<"DELETE">>, "True")
  ELSE Outcome(c.session, c.logged_in, <<"DELETE">>, "False")

\* PowerHMC.logoff
logoff(c, r) ==
  IF ~c.logged_in THEN Outcome(c.session, c.logged_in, << >>, "True")
  ELSE IF c.session = EmptyStr THEN Outcome(c.session, FALSE, << >>, "True")
  ELSE IF r.tls THEN Outcome(c.session, c.logged_in, <<"DELETE">>, "SystemExit")
  ELSE IF r.status = HTTP_OK THEN Outcome(EmptyStr, FALSE, <<"DELETE">>, "True")
  ELSE Outcome(c.session, c.logged_in, <<"DELETE">>, "False")

\* PowerHMC.get: the returned pair is (body, ok); body is meaningful when ok
GetOutcome(c, sent, ret, ok, body) ==
  [session |-> c.session, logged_in |-> c.logged_in, sent |-> sent, ret |-> ret,
   ok |-> ok, body |-> body]

\* get with the SSL error reported as a failed request instead of sys.exit
get_swallowing_ssl_error(c, r) ==
  IF ~c.logged_in THEN GetOutcome(c, << >>, "return", FALSE, NoResponse)
  ELSE IF c.session = EmptyStr THEN GetOutcome(c, << >>, "return", FALSE, NoResponse)
  ELSE IF r.tls THEN GetOutcome(c, <<"GET">>, "return", FALSE, NoResponse)
  ELSE IF r.status = HTTP_OK THEN GetOutcome(c, <<"GET">>, "return", TRUE, r)
  ELSE GetOutcome(c, <<"GET">>, "return", FALSE, NoResponse)

get(c, r) ==
  IF ~c.logged_in THEN GetOutcome(c, << >>, "return", FALSE, NoResponse)
  ELSE IF c.session = EmptyStr THEN GetOutcome(c, << >>, "return", FALSE, NoResponse)
  ELSE IF r.tls THEN GetOutcome(c, <<"GET">>, "SystemExit", FALSE, NoResponse)
  ELSE IF r.status = HTTP_OK THEN GetOutcome(c, <<"GET">>, "return", TRUE, r)
  ELSE GetOutcome(c, <<"GET">>, "return", FALSE, NoResponse)

\* the four nested loops of logical_partitions over the parsed feed
PartitionNames(xml) ==
  LET entries  == SelectSeq(xml.children, LAMBDA c : c.tag = <<NoNS, "entry">>)
      contents == Descend(entries, <<AtomNS, "content">>)
      lps      == Descend(contents, <<UomNS, "LogicalPartition">>)
      names    == Descend(lps, <<UomNS, "PartitionName">>)
  IN  Texts(names)

\* PowerHMC.logical_partitions: (lpars, err) or the exception that left it
ListOutcome(g, ret, ok, names) ==
  [session |-> g.session, logged_in |-> g.logged_in, sent |-> g.sent, ret |-> ret,
   ok |-> ok, lpars |-> names]

logical_partitions(c, r) ==
  LET g == get(c, r)
  IN  IF g.ret # "return" THEN ListOutcome(g, g.ret, FALSE, << >>)
      ELSE IF ~g.ok THEN ListOutcome(g, "return", FALSE, << >>)
      ELSE IF ~g.body.parses THEN ListOutcome(g, "ParseError", FALSE, << >>)
      ELSE LET names == PartitionNames(xml_parse(g.body.root))
           IN  IF SortRaises(names) THEN ListOutcome(g, "TypeError", FALSE, << >>)
               ELSE ListOutcome(g, "return", TRUE, Sort(names))

(* ------------------------ inventory documents -------------------------- *)
\* a dict is a function from its keys; {} is the function with no keys
EmptyDoc == [k \in {} |-> << >>]

\* d[k] = v
Put(d, k, v) == [x \in (DOMAIN d) \cup {k} |-> IF x = k THEN v ELSE d[x]]

\* defaultdict(list): d[k].append(v) creates d[k] = [] on first access
AppendTo(d, k, v) == Put(d, k, Append(IF k \in DOMAIN d THEN d[k] ELSE << >>, v))

RECURSIVE AppendAll(_, _, _)
AppendAll(d, k, vs) == IF vs = << >> THEN d ELSE AppendAll(AppendTo(d, k, Head(vs)), k, Tail(vs))

Meta == [hostvars |-> EmptyDoc]

(* ------------------------- cache controller ---------------------------- *)
DefaultMaxAge == 60
TimeIsBound == FALSE   \* the module imports no name "time"

\* HmcInventory.is_cache_valid
is_cache_valid(files, max_age, now) ==
  IF files.marker.exists
  THEN IF ~TimeIsBound THEN "NameError"
       ELSE IF files.marker.mtime + max_age > now
            THEN IF files.inventory.exists /\ files.params /\ files.facts THEN "True" ELSE "False"
            ELSE "False"
  ELSE "False"

\* the body of update_cache after logoff: inventory and file it writes
update_inventory(inv, ok, names) ==
  IF ~ok THEN EmptyDoc ELSE AppendAll(inv, "all", names)

\* update_cache with the early return of the failure branch taken before logoff
update_cache_logoff_on_success_only(at, ok) ==
  CASE at = "construct" -> "list"
    [] at = "list"      -> IF ok THEN "logoff" ELSE "store"
    [] at = "logoff"    -> "store"
    [] at = "store"     -> "print"

\* update_cache: the call that follows the one at position at; the err flag
\* of logical_partitions is looked at only after logoff
update_cache_next(at, ok) ==
  CASE at = "construct" -> "list"
    [] at = "list"      -> "logoff"
    [] at = "logoff"    -> "store"
    [] at = "store"     -> "print"

\* write_to_cache that also creates the marker file
write_to_cache_touching_marker(files, inv) ==
  [files EXCEPT !.inventory = [exists |-> TRUE, doc |-> inv], !.marker.exists = TRUE]

\* write_to_cache that leaves the file alone when there is nothing to list
write_to_cache_skipping_empty(files, inv) ==
  IF inv = [k \in {} |-> << >>] THEN files
  ELSE [files EXCEPT !.inventory = [exists |-> TRUE, doc |-> inv]]

\* write_to_cache: json.dumps(self.inventory) replaces the inventory file
write_to_cache(files, inv) == [files EXCEPT !.inventory = [exists |-> TRUE, doc |-> inv]]

\* _print_data: the document that goes to stdout
print_data(inv) == Put(inv, "_meta", Meta)

(* ----------------------------- inputs ---------------------------------- *)
Strings(chars, n) == UNION {[1..k -> chars] : k \in 0..n}

\* X-API-Session texts over " " and "A"
TokenTexts == Strings({SP, 65}, MaxText)

db01  == <<100, 98, 48, 49>>
web01 == <<119, 101, 98, 48, 49>>
web02 == <<119, 101, 98, 48, 50>>
old01 == <<111, 108, 100, 48, 49>>
Names == {db01, web01, web02}

Leaf(tag, text) == El(tag, text, << >>)

\* a LogonResponse document in one default namespace ns
LogonDoc(ns, text) ==
  El(<<ns, "LogonResponse">>, NoneText,
     << El(<<ns, "Metadata">>, NoneText, <<Leaf(<<ns, "Atom">>, NoneText)>>),
        Leaf(<<ns, "X-API-Session">>, text) >>)

LogonDocNoToken(ns) ==
  El(<<ns, "LogonResponse">>, NoneText,
     << El(<<ns, "Metadata">>, NoneText, <<Leaf(<<ns, "Atom">>, NoneText)>>) >>)

TlsFailure == Response(TRUE, 0, FALSE, NoElement)
Status(code) == Response(FALSE, code, FALSE, NoElement)
Body(root) == Response(FALSE, HTTP_OK, TRUE, root)

LogonNamespaces == {NoNS, WebNS, OtherNS}
WellFormedLogons == {Body(LogonDoc(ns, t)) : ns \in LogonNamespaces, t \in TokenTexts}
LogonResponses ==
  WellFormedLogons \cup {TlsFailure, Status(401), Status(HTTP_OK), Body(LogonDocNoToken(WebNS))}

\* feed entries: the Atom envelope of one LogicalPartition
Partition(ns, text) ==
  El(<<ns, "LogicalPartition">>, NoneText,
     << Leaf(<<ns, "PartitionID">>, <<49>>), Leaf(<<ns, "PartitionName">>, text) >>)

Entry(content) == El(<<AtomNS, "entry">>, NoneText, <<Leaf(<<AtomNS, "id">>, <<49>>)>> \o content)
Content(ns, children) == <<El(<<AtomNS, "content">>, NoneText, children)>>

\* the feed entries of the partitions named ns, in that order
WellFormed(ns) == [i \in DOMAIN ns |-> Entry(Content(UomNS, <<Partition(UomNS, ns[i])>>))]
WellFormedEntries == {Entry(Content(UomNS, <<Partition(UomNS, n)>>)) : n \in Names}
MalformedEntries ==
  { Entry(<< >>),
    Entry(Content(UomNS, << >>)),
    Entry(Content(UomNS, <<El(<<UomNS, "LogicalPartition">>, NoneText, << >>)>>)),
    Entry(Content(UomNS, <<Partition(UomNS, NoneText)>>)) }
OtherVersionEntries == {Entry(Content(OtherNS, <<Partition(OtherNS, web01)>>))}
\* the entries mixed into feeds with malformed ones
MixedEntries ==
  {Entry(Content(UomNS, <<Partition(UomNS, web01)>>))} \cup MalformedEntries \cup OtherVersionEntries

Feed(entries) == El(<<AtomNS, "feed">>, NoneText, entries)
SeqsUpTo(S, n) == UNION {[1..k -> S] : k \in 0..n}
WellFormedFeeds == {Body(Feed(es)) : es \in SeqsUpTo(WellFormedEntries, MaxFeed)}
MixedFeeds == {Body(Feed(es)) : es \in SeqsUpTo(MixedEntries, MaxMixed)}
GetResponses == WellFormedFeeds \cup MixedFeeds \cup {TlsFailure, Status(500), Status(HTTP_OK)}

DeleteResponses == {TlsFailure, Status(HTTP_OK), Status(500)}

\* the cache directory before the run
OldDoc == Put(EmptyDoc, "all", <<old01>>)
Markers == {[exists |-> FALSE, mtime |-> 0]} \cup {[exists |-> TRUE, mtime |-> t] : t \in 0..MaxTime}
InventoryFiles == {[exists |-> FALSE, doc |-> EmptyDoc], [exists |-> TRUE, doc |-> OldDoc]}
FileSystems == [marker : Markers, inventory : InventoryFiles, params : BOOLEAN, facts : BOOLEAN]
MaxAges == {1}

(* ------------------------------ state ---------------------------------- *)
VARIABLES
  pc,             \* where the run is: the next call of run/get_inventory/update_cache
  args,           \* args.refresh_cache
  cache_max_age,  \* self.cache_max_age
  inventory,      \* self.inventory
  h,              \* the PowerHMC of update_cache: constructed, session, logged_in
  lpars,          \* (lpars, err) of update_cache, as [ok, names]
  files,          \* the cache directory: marker, inventory, params, facts
  clock,          \* what time() would return
  io,             \* the response each request of the run received
  http,           \* the requests sent, in order
  trace,          \* the calls made, in order
  ret,            \* the result of the last call
  stdout,         \* the documents printed
  exit_code,      \* -1 while running, then the process's exit status
  config,         \* the options of section [hmc] that the ini files give
  runs,           \* how many invocations have been started on this cache directory
  written,        \* every document written to the inventory file so far, in order
  writers,        \* two invocations inside write_to_cache at the same time
  disk            \* the bytes of the inventory file those two write

vars == <<pc, args, cache_max_age, inventory, h, lpars, files, clock, io, http, trace, ret, stdout, exit_code,
          config, runs, written, writers, disk>>

NoClient == [constructed |-> FALSE, session |-> EmptyStr, logged_in |-> FALSE]
NoIO == [PUT |-> NoResponse, GET |-> NoResponse, DELETE |-> NoResponse]
NoLpars == [ok |-> FALSE, names |-> << >>]
Running == -1

\* the options read_settings requires
RequiredSettings == {"url", "user", "password", "ssl_verify"}

\* write_to_cache of one invocation: not started, file open, file closed
Idle(doc) == [at |-> "idle", doc |-> doc]
NoWriters == [p \in {1, 2} |-> Idle(EmptyDoc)]
NoDisk == [text |-> << >>, last |-> 0]

\* sys.exit(not HmcInventory().run())
exit_status_not_negated(result) == IF result THEN 1 ELSE 0

exit_status(result) == IF result THEN 0 ELSE 1

Init ==
  /\ pc = "run"
  /\ args = FALSE
  /\ cache_max_age = DefaultMaxAge
  /\ inventory = EmptyDoc
  /\ h = NoClient
  /\ lpars = NoLpars
  /\ files \in FileSystems
  /\ clock = MaxTime
  /\ io = NoIO
  /\ http = << >>
  /\ trace = << >>
  /\ ret = "-"
  /\ stdout = << >>
  /\ exit_code = Running
  /\ config \in SUBSET RequiredSettings
  /\ runs = 1
  /\ written = << >>
  /\ writers = NoWriters
  /\ disk = NoDisk

\* an exception nobody catches, or sys.exit(1): the process ends with status 1
Abort(why) ==
  /\ pc' = "exited"
  /\ ret' = why
  /\ exit_code' = 1

\* run: read_settings and read_cli_args
ReadSettings ==
  /\ pc = "run"
  /\ trace' = Append(trace, "read_settings")
  /\ \E refresh \in BOOLEAN, age \in MaxAges :
       IF config # RequiredSettings
       THEN /\ pc' = "exited"
            /\ ret' = "False"
            /\ exit_code' = exit_status(FALSE)
            /\ UNCHANGED <<args, cache_max_age>>
       ELSE /\ pc' = "get_inventory"
            /\ ret' = "True"
            /\ args' = refresh
            /\ cache_max_age' = age
            /\ UNCHANGED exit_code
  /\ UNCHANGED <<inventory, h, lpars, files, clock, io, http, stdout>>
  /\ UNCHANGED <<config, runs, written, writers, disk>>

\* get_inventory: the choice between update_cache and load_inventory_from_cache
GetInventory ==
  /\ pc = "get_inventory"
  /\ LET valid == IF args THEN "-" ELSE is_cache_valid(files, cache_max_age, clock)
         calls == IF args THEN << >> ELSE <<"is_cache_valid">>
     IN  IF valid = "NameError"
         THEN /\ Abort("NameError")
              /\ trace' = trace \o calls
              /\ UNCHANGED inventory
         ELSE IF valid = "True"
         THEN /\ pc' = "print"
              /\ ret' = valid
              /\ trace' = trace \o calls \o <<"load_inventory_from_cache">>
              /\ inventory' = files.inventory.doc
              /\ UNCHANGED exit_code
         ELSE /\ pc' = "construct"
              /\ ret' = valid
              /\ trace' = trace \o calls \o <<"update_cache">>
              /\ UNCHANGED <<inventory, exit_code>>
  /\ UNCHANGED <<args, cache_max_age, h, lpars, files, clock, io, http, stdout>>
  /\ UNCHANGED <<config, runs, written, writers, disk>>

\* update_cache: h = PowerHMC(...), whose constructor calls logon
ConstructOver(responses) ==
  /\ pc = "construct"
  /\ \E r \in responses :
       LET o == logon(NoClient, r)
       IN  /\ h' = [constructed |-> TRUE, session |-> o.session, logged_in |-> o.logged_in]
           /\ http' = http \o o.sent
           /\ io' = [io EXCEPT !.PUT = IF o.sent = << >> THEN @ ELSE r]
           /\ IF o.ret \in {"True", "False"}
              THEN pc' = update_cache_next("construct", TRUE) /\ ret' = o.ret /\ UNCHANGED exit_code
              ELSE Abort(o.ret)
  /\ trace' = Append(trace, "logon")
  /\ UNCHANGED <<args, cache_max_age, inventory, lpars, files, clock, stdout>>
  /\ UNCHANGED <<config, runs, written, writers, disk>>

\* update_cache: (lpars, err) = h.logical_partitions()
ListOver(responses) ==
  /\ pc = "list"
  /\ \E r \in responses :
       LET o == logical_partitions(h, r)
       IN  /\ http' = http \o o.sent
           /\ io' = [io EXCEPT !.GET = IF o.sent = << >> THEN @ ELSE r]
           /\ IF o.ret = "return"
              THEN /\ pc' = update_cache_next("list", o.ok)
                   /\ ret' = IF o.ok THEN "True" ELSE "False"
                   /\ lpars' = [ok |-> o.ok, names |-> o.lpars]
                   /\ UNCHANGED exit_code
              ELSE Abort(o.ret) /\ UNCHANGED lpars
  /\ trace' = Append(trace, "logical_partitions")
  /\ UNCHANGED <<args, cache_max_age, inventory, h, files, clock, stdout>>
  /\ UNCHANGED <<config, runs, written, writers, disk>>

\* update_cache: h.logoff()
LogoffOver(responses) ==
  /\ pc = "logoff"
  /\ \E r \in responses :
       LET o == logoff(h, r)
       IN  /\ h' = [h EXCEPT !.session = o.session, !.logged_in = o.logged_in]
           /\ http' = http \o o.sent
           /\ io' = [io EXCEPT !.DELETE = IF o.sent = << >> THEN @ ELSE r]
           /\ IF o.ret \in {"True", "False"}
              THEN pc' = update_cache_next("logoff", lpars.ok) /\ ret' = o.ret /\ UNCHANGED exit_code
              ELSE Abort(o.ret)
  /\ trace' = Append(trace, "logoff")
  /\ UNCHANGED <<args, cache_max_age, inventory, lpars, files, clock, stdout>>
  /\ UNCHANGED <<config, runs, written, writers, disk>>

\* update_cache: the inventory is reset or filled, then write_to_cache
Store ==
  /\ pc = "store"
  /\ inventory' = update_inventory(inventory, lpars.ok, lpars.names)
  /\ files' = write_to_cache(files, inventory')
  /\ trace' = Append(trace, "write_to_cache")
  /\ pc' = update_cache_next("store", lpars.ok)
  /\ ret' = "None"
  /\ UNCHANGED <<args, cache_max_age, h, lpars, clock, io, http, stdout, exit_code>>
  /\ written' = Append(written, inventory')
  /\ UNCHANGED <<config, runs, writers, disk>>

\* run: _print_data, return True, and sys.exit(not True)
PrintData ==
  /\ pc = "print"
  /\ inventory' = print_data(inventory)
  /\ stdout' = Append(stdout, inventory')
  /\ trace' = Append(trace, "_print_data")
  /\ pc' = "exited"
  /\ ret' = "True"
  /\ exit_code' = exit_status(TRUE)
  /\ UNCHANGED <<args, cache_max_age, h, lpars, files, clock, io, http>>
  /\ UNCHANGED <<config, runs, written, writers, disk>>

Construct == ConstructOver(LogonResponses)
ListLogicalPartitions == ListOver(GetResponses)
Logoff == LogoffOver(DeleteResponses)

Next ==
  \/ ReadSettings
  \/ GetInventory
  \/ Construct
  \/ ListLogicalPartitions
  \/ Logoff
  \/ Store
  \/ PrintData

Spec == Init /\ [][Next]_vars

(* ------------------- one invocation after another ---------------------- *)
\* what the HMC answers in a series of invocations
RunLogons == {Body(LogonDoc(WebNS, <<65>>)), Status(401)}
RunNames == Names
RunFeeds == {Body(Feed(WellFormed(ns))) : ns \in SeqsUpTo(RunNames, MaxRunFeed)} \cup {Status(500)}
RunDeletes == {Status(HTTP_OK), TlsFailure}

\* the settings are complete and the params and facts files are in place
InitRuns ==
  /\ Init
  /\ config = RequiredSettings
  /\ files.params /\ files.facts

\* the process has ended; the next invocation is a new process with a new
\* HmcInventory, on the cache directory the last one left
NextRun ==
  /\ pc = "exited"
  /\ runs < MaxRuns
  /\ runs' = runs + 1
  /\ pc' = "run"
  /\ args' = FALSE
  /\ cache_max_age' = DefaultMaxAge
  /\ inventory' = EmptyDoc
  /\ h' = NoClient
  /\ lpars' = NoLpars
  /\ io' = NoIO
  /\ http' = << >>
  /\ trace' = << >>
  /\ ret' = "-"
  /\ stdout' = << >>
  /\ exit_code' = Running
  /\ UNCHANGED <<files, clock, config, written, writers, disk>>

ConstructInRuns == ConstructOver(RunLogons)
ListInRuns == ListOver(RunFeeds)
LogoffInRuns == LogoffOver(RunDeletes)

NextRuns ==
  \/ ReadSettings
  \/ GetInventory
  \/ ConstructInRuns
  \/ ListInRuns
  \/ LogoffInRuns
  \/ Store
  \/ PrintData
  \/ NextRun

SpecRuns == InitRuns /\ [][NextRuns]_vars

(* ------------------- a caller of the session client -------------------- *)
\* what the HMC answers to a caller that uses PowerHMC on its own
ClientLogons ==
  {Body(LogonDoc(WebNS, <<65>>)), Body(LogonDoc(WebNS, <<SP>>)), Body(LogonDoc(WebNS, NoneText)),
   Status(401), TlsFailure}
ClientGets == {Body(Feed(WellFormed(<<web01>>))), Status(500), TlsFailure}

InitClient ==
  /\ Init
  /\ config = RequiredSettings
  /\ files = [marker |-> [exists |-> FALSE, mtime |-> 0],
              inventory |-> [exists |-> FALSE, doc |-> EmptyDoc],
              params |-> FALSE, facts |-> FALSE]

\* a method of the client returned, or left through an exception
ClientCall(name, o, pcnext) ==
  /\ h' = [constructed |-> TRUE, session |-> o.session, logged_in |-> o.logged_in]
  /\ http' = http \o o.sent
  /\ trace' = Append(trace, name)
  /\ IF o.ret \in {"SystemExit", "ParseError", "AttributeError", "TypeError"}
     THEN Abort(o.ret)
     ELSE pc' = pcnext /\ UNCHANGED exit_code
  /\ UNCHANGED <<args, cache_max_age, inventory, files, clock, stdout, config, runs, written, writers, disk>>

\* PowerHMC(url, user, password, verify_ssl)
ClientNew ==
  /\ pc = "run"
  /\ \E r \in ClientLogons :
       LET o == logon(NoClient, r)
       IN  /\ ClientCall("logon", o, "client")
           /\ io' = [io EXCEPT !.PUT = IF o.sent = << >> THEN @ ELSE r]
           /\ ret' = o.ret
           /\ UNCHANGED lpars

\* h.logon()
ClientLogon ==
  /\ pc = "client"
  /\ Len(trace) <= MaxCalls
  /\ \E r \in ClientLogons :
       LET o == logon(h, r)
       IN  /\ ClientCall("logon", o, "client")
           /\ io' = [io EXCEPT !.PUT = IF o.sent = << >> THEN @ ELSE r]
           /\ ret' = o.ret
           /\ UNCHANGED lpars

\* h.logoff()
ClientLogoff ==
  /\ pc = "client"
  /\ Len(trace) <= MaxCalls
  /\ \E r \in DeleteResponses :
       LET o == logoff(h, r)
       IN  /\ ClientCall("logoff", o, "client")
           /\ io' = [io EXCEPT !.DELETE = IF o.sent = << >> THEN @ ELSE r]
           /\ ret' = o.ret
           /\ UNCHANGED lpars

\* h.get(api, content)
ClientGet ==
  /\ pc = "client"
  /\ Len(trace) <= MaxCalls
  /\ \E r \in ClientGets :
       LET o == get(h, r)
       IN  /\ ClientCall("get", o, "client")
           /\ io' = [io EXCEPT !.GET = IF o.sent = << >> THEN @ ELSE r]
           /\ ret' = IF o.ret # "return" THEN o.ret ELSE IF o.ok THEN "True" ELSE "False"
           /\ UNCHANGED lpars

\* h.logical_partitions()
ClientList ==
  /\ pc = "client"
  /\ Len(trace) <= MaxCalls
  /\ \E r \in ClientGets :
       LET o == logical_partitions(h, r)
       IN  /\ ClientCall("logical_partitions", o, "client")
           /\ io' = [io EXCEPT !.GET = IF o.sent = << >> THEN @ ELSE r]
           /\ ret' = IF o.ret # "return" THEN o.ret ELSE IF o.ok THEN "True" ELSE "False"
           /\ lpars' = IF o.ret = "return" THEN [ok |-> o.ok, names |-> o.lpars] ELSE lpars

NextClient ==
  \/ ClientNew
  \/ ClientLogon
  \/ ClientLogoff
  \/ ClientGet
  \/ ClientList

SpecClient == InitClient /\ [][NextClient]_vars

(* ----------------------- vocabulary of the claims ----------------------- *)
Called(f) == \E i \in DOMAIN trace : trace[i] = f
Count(f) == Cardinality({i \in DOMAIN trace : trace[i] = f})
Pos(f) == CHOOSE i \in DOMAIN trace : trace[i] = f
LastCall == IF trace = << >> THEN "-" ELSE trace[Len(trace)]

HasNonSpace(t) == \E i \in DOMAIN t : t[i] # SP

\* s is t without its leading and trailing blanks
IsTrimOf(s, t) ==
  /\ s # << >> => s[1] # SP /\ s[Len(s)] # SP
  /\ \E i \in 0..Len(t), j \in 0..Len(t) :
       /\ i + Len(s) + j = Len(t)
       /\ \A k \in 1..i : t[k] = SP
       /\ \A k \in 1..Len(s) : t[i + k] = s[k]
       /\ \A k \in 1..j : t[i + Len(s) + k] = SP

\* a <= b in dictionary order
LexLeq(a, b) ==
  \/ Len(a) <= Len(b) /\ \A k \in 1..Len(a) : a[k] = b[k]
  \/ \E k \in 1..Len(a) :
       /\ k <= Len(b)
       /\ \A m \in 1..(k - 1) : a[m] = b[m]
       /\ a[k] < b[k]

IsSorted(s) == \A i \in 1..(Len(s) - 1) : LexLeq(s[i], s[i + 1])
Occurrences(s, x) == Cardinality({i \in DOMAIN s : s[i] = x})
IsPermutation(s, t) ==
  /\ Len(s) = Len(t)
  /\ \A i \in DOMAIN t : Occurrences(s, t[i]) = Occurrences(t, t[i])

\* the PUT of this run was answered with HTTP OK and a token that is not blank
LogonGaveToken ==
  \E ns \in LogonNamespaces, t \in TokenTexts : io.PUT = Body(LogonDoc(ns, t)) /\ HasNonSpace(t)

\* the PUT of this run was answered with HTTP OK and a token element that
\* has no text or only blanks
LogonGaveEmptyToken ==
  \E ns \in LogonNamespaces, t \in TokenTexts : io.PUT = Body(LogonDoc(ns, t)) /\ ~HasNonSpace(t)

\* the PUT of this run was answered with a status other than HTTP OK
LogonRefused == "PUT" \in {http[i] : i \in DOMAIN http} /\ ~io.PUT.tls /\ io.PUT.status # HTTP_OK

\* the document {"all": names, "_meta": {"hostvars": {}}}
IsInventoryOf(doc, names) ==
  /\ DOMAIN doc = {"all", "_meta"}
  /\ doc["_meta"] = Meta
  /\ IsSorted(doc["all"])
  /\ IsPermutation(doc["all"], names)

(* ------------------------------- C1 ------------------------------------ *)
\* C1: a forced refresh whose logon returns a non-empty token and whose LPAR
\* GET returns HTTP OK with a feed of well-formed entries prints exactly
\* {"all": <the feed's names, sorted>, "_meta": {"hostvars": {}}} and exits 0,
\* for every feed of names in every order.
C1_ForcedRefreshDocument ==
  \A ns \in SeqsUpTo(Names, MaxFeed) :
    ( /\ pc = "exited"
      /\ args
      /\ LogonGaveToken
      /\ io.GET = Body(Feed(WellFormed(ns)))
      /\ ~io.DELETE.tls )
    => /\ exit_code = 0
       /\ Len(stdout) = 1
       /\ IsInventoryOf(stdout[1], ns)

(* ------------------------------- C2 ------------------------------------ *)
\* C2: when logon succeeds and the LPAR GET returns a non-success status, the
\* run prints exactly {"all": [], "_meta": {"hostvars": {}}} and exits 0.
C2_ListingFailureDocument ==
  ( /\ pc = "exited"
    /\ LogonGaveToken
    /\ "GET" \in {http[i] : i \in DOMAIN http}
    /\ ~io.GET.tls
    /\ io.GET.status # HTTP_OK
    /\ ~io.DELETE.tls )
  => /\ exit_code = 0
     /\ Len(stdout) = 1
     /\ IsInventoryOf(stdout[1], << >>)

JustChecked ==
  /\ Called("is_cache_valid")
  /\ LastCall \in {"is_cache_valid", "update_cache", "load_inventory_from_cache"}

DependentsExist == files.inventory.exists /\ files.params /\ files.facts
MarkerFresh == files.marker.exists /\ clock - files.marker.mtime <= cache_max_age
MarkerStale == files.marker.exists /\ files.marker.mtime + cache_max_age < clock

\* C4: an unforced run over a valid cache (marker present and no older than
\* max-age, inventory, params and facts present) serves the cache: no client
\* is constructed, no request is sent, and the run prints the cached document
\* with _meta injected and exits 0.
C4_ValidCacheIsServed ==
  /\ (JustChecked /\ MarkerFresh /\ DependentsExist) =>
       /\ ret = "True"
       /\ pc = "print"
       /\ inventory = files.inventory.doc
  /\ (pc = "exited" /\ Called("is_cache_valid") /\ MarkerFresh /\ DependentsExist /\ ~Called("update_cache")) =>
       /\ exit_code = 0
       /\ ~h.constructed
       /\ http = << >>
       /\ stdout = <<Put(files.inventory.doc, "_meta", Meta)>>

\* C5: with a marker whose mtime plus max-age is earlier than the current
\* time, is_cache_valid returns False even when inventory, params and facts
\* all exist, and the unforced run refreshes.
C5_StaleMarkerIsInvalid ==
  (JustChecked /\ MarkerStale) =>
    /\ ret = "False"
    /\ pc = "construct"
    /\ Called("update_cache")

\* C6: with any of inventory, params or facts missing, is_cache_valid returns
\* False whatever the marker is: absent, fresh or stale.
C6_MissingDependentIsInvalid ==
  (JustChecked /\ ~DependentsExist) =>
    /\ ret = "False"
    /\ pc = "construct"

(* ------------------------------- C7 ------------------------------------ *)
\* C7: a logon answered with HTTP OK and a well-formed LogonResponse whose
\* X-API-Session element has a non-blank text, in any namespace or none, sets
\* the session token to the trimmed text, sets logged_in and returns True.
C7_TokenIsTrimmedText ==
  \A ns \in LogonNamespaces, t \in TokenTexts :
    (LastCall = "logon" /\ io.PUT = Body(LogonDoc(ns, t)) /\ HasNonSpace(t)) =>
      /\ ret = "True"
      /\ h.logged_in
      /\ IsTrimOf(h.session, t)
      /\ pc = "list"

\* a token with a leading blank, in a namespace of another firmware version
C7_Witness ==
  /\ LastCall = "logon"
  /\ io.PUT = Body(LogonDoc(OtherNS, <<SP, 65>>))
  /\ h.session = <<65>>
  /\ h.logged_in

(* ------------------------------- C8 ------------------------------------ *)
\* C8: logon returns False and leaves logged_in false, raising nothing,
\* whenever the status is not HTTP OK or the X-API-Session element of an
\* HTTP-OK response has no text or only blanks; the constructor returns.
C8_LogonFailsSoftly ==
  (LastCall = "logon" /\ (LogonRefused \/ LogonGaveEmptyToken)) =>
    /\ ret = "False"
    /\ h.constructed
    /\ ~h.logged_in
    /\ pc = "list"
    /\ exit_code = Running

(* ------------------------------- C9 ------------------------------------ *)
\* C9: a refresh whose logon fails (status not OK, or empty token) does not
\* abort: get and logoff send nothing, the listing fails, an inventory
\* without hosts is written and printed, and the run exits 0.
C9_LogonFailureGivesEmptyInventory ==
  (pc = "exited" /\ Called("logon") /\ (LogonRefused \/ LogonGaveEmptyToken)) =>
    /\ exit_code = 0
    /\ http = <<"PUT">>
    /\ ~lpars.ok
    /\ Called("logoff")
    /\ files.inventory = [exists |-> TRUE, doc |-> EmptyDoc]
    /\ stdout = <<Put(EmptyDoc, "_meta", Meta)>>

(* ------------------------------- C10 ----------------------------------- *)
RECURSIVE AllBare(_)
AllBare(el) == el.tag[1] = NoNS /\ \A i \in DOMAIN el.children : AllBare(el.children[i])

ParsedBodies == {r \in {io.PUT, io.GET} : r.parses}

\* C10: after xml_parse every element of the tree, root, children and deeper
\* descendants, carries its bare local name, and a second pass changes
\* nothing; so a feed is read the same whatever namespace its elements use.
C10_StrippingIsUniform ==
  /\ \A r \in ParsedBodies :
       /\ AllBare(xml_parse(r.root))
       /\ xml_parse(xml_parse(r.root)) = xml_parse(r.root)
  /\ (LastCall = "logical_partitions" /\ io.GET = Body(Feed(<<Entry(Content(OtherNS, <<Partition(OtherNS, web01)>>))>>)))
       => lpars = [ok |-> TRUE, names |-> <<web01>>]

(* ------------------------------- C11 ----------------------------------- *)
\* the texts of the PartitionName elements of the HMC schema anywhere below
\* el, in document order
RECURSIVE SchemaNamesOf(_)
RECURSIVE SchemaNamesIn(_)
SchemaNamesOf(el) ==
  (IF el.tag = <<UomNS, "PartitionName">> THEN <<el.text>> ELSE << >>) \o SchemaNamesIn(el.children)
SchemaNamesIn(els) ==
  IF els = << >> THEN << >> ELSE SchemaNamesOf(Head(els)) \o SchemaNamesIn(Tail(els))

ListReturnedSuccess == LastCall = "logical_partitions" /\ pc = "logoff" /\ lpars.ok

TlsRaised == io.PUT.tls \/ io.GET.tls \/ io.DELETE.tls

\* C12: when the logon PUT, the LPAR GET or the logoff DELETE raises a TLS
\* verification error the process ends at once with a non-zero status: the
\* failing request is the last thing it did, nothing is printed and the
\* inventory file is not written.
C12_TlsErrorIsFatal ==
  TlsRaised =>
    /\ pc = "exited"
    /\ exit_code # 0
    /\ exit_code # Running
    /\ ret = "SystemExit"
    /\ io.PUT.tls => LastCall = "logon" /\ http = <<"PUT">>
    /\ io.GET.tls => LastCall = "logical_partitions" /\ http = <<"PUT", "GET">>
    /\ io.DELETE.tls => LastCall = "logoff" /\ http = <<"PUT", "GET", "DELETE">>
    /\ stdout = << >>
    /\ written = << >>
    /\ files.inventory \in InventoryFiles
    /\ ~Called("write_to_cache")
    /\ ~Called("_print_data")

\* the DELETE fails after a listing that succeeded: the names are lost
C12_Witness ==
  /\ io.DELETE.tls
  /\ lpars = [ok |-> TRUE, names |-> <<db01, web01>>]
  /\ files.inventory = [exists |-> TRUE, doc |-> OldDoc]
  /\ exit_code = 1

(* ------------------------------- C13 ----------------------------------- *)
SettingMissing == config # RequiredSettings

\* C13: with url, user, password or ssl_verify missing the run ends with a
\* non-zero status before any network activity: read_settings is the only
\* call made, no client exists, no request was sent, no cache file was read
\* or written, stdout is empty.  A run that gets through run() exits with 0.
C13_MissingSettingAborts ==
  /\ (SettingMissing /\ pc # "run") =>
       /\ pc = "exited"
       /\ exit_code # 0
       /\ exit_code # Running
       /\ trace = <<"read_settings">>
       /\ ~h.constructed
       /\ http = << >>
       /\ io = NoIO
       /\ stdout = << >>
       /\ written = << >>
       /\ files.inventory \in InventoryFiles
  /\ (pc = "exited" /\ Called("_print_data")) =>
       /\ ~SettingMissing
       /\ exit_code = 0

\* only ssl_verify is missing
C13_Witness ==
  /\ config = {"url", "user", "password"}
  /\ pc = "exited"
  /\ exit_code = 1
  /\ trace = <<"read_settings">>

(* ------------------------------- C14 ----------------------------------- *)
\* the hosts a document lists in group "all"
Hosts(doc) == IF "all" \in DOMAIN doc THEN doc["all"] ELSE << >>

\* doc holds what the listing of the current invocation gave and nothing else
ReflectsListing(doc) ==
  /\ DOMAIN doc \subseteq {"all", "_meta"}
  /\ IF lpars.ok
     THEN IsSorted(Hosts(doc)) /\ IsPermutation(Hosts(doc), SchemaNamesOf(io.GET.root))
     ELSE Hosts(doc) = << >>

OnlyInventoryWritten ==
  /\ files'.marker = files.marker
  /\ files'.params = files.params
  /\ files'.facts = files.facts

\* with no marker file, the invocation refreshes and talks to the HMC
AlwaysRefreshing ==
  ~files.marker.exists =>
    /\ ~Called("load_inventory_from_cache")
    /\ JustChecked => ret = "False" /\ pc = "construct"
    /\ (pc \notin {"run", "get_inventory"} /\ ~SettingMissing) => Called("update_cache")
    /\ Called("logon") => http # << >> /\ http[1] = "PUT"
    /\ (pc \in {"list", "logoff", "store", "print"}) => Called("logon")
    /\ (pc = "exited" /\ exit_code = 0) => Called("logon")

\* C19: a run writes the inventory file only, never the marker, params or
\* facts file; so on a cache directory without marker file is_cache_valid is
\* False in every invocation of any sequence, and each of them goes to
\* update_cache and sends its logon to the HMC, none serves the cache.
C19_MarkerNeverWritten == [][OnlyInventoryWritten]_vars /\ []AlwaysRefreshing

\* the second unforced invocation after one that wrote the inventory file
C19_Witness ==
  /\ runs = 2
  /\ ~files.marker.exists
  /\ written # << >>
  /\ files.inventory.exists
  /\ ~args
  /\ Called("is_cache_valid")
  /\ Called("update_cache")
  /\ http = <<"PUT">>

(* ------------------------------- C15 ----------------------------------- *)
\* entries of the HMC schema, well-formed or lacking a descendant
SchemaEntries == MixedEntries \ OtherVersionEntries

NamedEntries(es) == SelectSeq(es, LAMBDA e : e \in WellFormedEntries)

\* C15: a feed entry without content, without LogicalPartition, without
\* PartitionName or with a PartitionName without text is skipped:
\* logical_partitions returns success with the names of the well-formed
\* entries and never fails or raises because of it.
C15_MalformedEntriesSkipped ==
  \A es \in SeqsUpTo(SchemaEntries, MaxMixed) :
    (LastCall = "logical_partitions" /\ io.GET = Body(Feed(es))) =>
      /\ pc = "logoff"
      /\ ret = "True"
      /\ lpars.ok
      /\ IsPermutation(lpars.names, SchemaNamesIn(NamedEntries(es)))

(* --------------------------- C16, C17, C20 ----------------------------- *)
\* the step is a call of the method name
Calls(name) == trace' = Append(trace, name)
Client(c) == [session |-> c.session, logged_in |-> c.logged_in]

\* C16: logoff of a client that is not logged in returns True, sends nothing
\* and changes nothing; logoff of a logged-in client whose DELETE gets HTTP OK
\* clears the token and the flag and returns True; and a logoff that comes
\* right after a logoff that returned True sends nothing and returns True.
C16_LogoffIdempotent ==
  [][ Calls("logoff") =>
        /\ ~h.logged_in =>
             /\ Client(h') = Client(h)
             /\ http' = http
             /\ ret' = "True"
        /\ (h.logged_in /\ http' = Append(http, "DELETE") /\ io'.DELETE = Status(HTTP_OK)) =>
             /\ h'.session = EmptyStr
             /\ ~h'.logged_in
             /\ ret' = "True"
        /\ h.logged_in => http' = Append(http, "DELETE")
        /\ (LastCall = "logoff" /\ ret = "True") =>
             /\ http' = http
             /\ ret' = "True"
             /\ Client(h') = Client(h) ]_vars

\* two logoffs in a row after a logon that gave a token: one DELETE
C16_Witness ==
  /\ trace = <<"logon", "logoff", "logoff">>
  /\ http = <<"PUT", "DELETE">>
  /\ io.DELETE = Status(HTTP_OK)
  /\ h = [constructed |-> TRUE, session |-> EmptyStr, logged_in |-> FALSE]
  /\ ret = "True"

\* C17: logon of a client that is logged in returns True at once, sends no
\* PUT and leaves the token and the flag as they are.
C17_LogonIdempotent ==
  [][ (Calls("logon") /\ h.logged_in) =>
        /\ ret' = "True"
        /\ http' = http
        /\ io' = io
        /\ Client(h') = Client(h)
        /\ pc' = "client" ]_vars

\* a second logon after the constructor's: still one PUT
C17_Witness ==
  /\ trace = <<"logon", "logon">>
  /\ http = <<"PUT">>
  /\ h = [constructed |-> TRUE, session |-> <<65>>, logged_in |-> TRUE]
  /\ ret = "True"

\* the client is logged in exactly when it holds a token
TokenIffLoggedIn == h.logged_in <=> h.session # EmptyStr

\* C20: after the constructor and after every return of logon, logoff, get
\* or logical_partitions, in any order and whatever the HMC answers, the
\* client is logged in exactly when its token is not empty; get and
\* logical_partitions never change the token or the flag.
C20_TokenIffLoggedIn ==
  /\ [](pc \in {"client", "exited"} => TokenIffLoggedIn)
  /\ [][ (Calls("get") \/ Calls("logical_partitions")) => Client(h') = Client(h) ]_vars

\* logged off after a listing and a logoff the HMC refused at first
C20_Witness ==
  /\ trace = <<"logon", "logical_partitions", "logoff", "logoff">>
  /\ http = <<"PUT", "GET", "DELETE", "DELETE">>
  /\ h = [constructed |-> TRUE, session |-> EmptyStr, logged_in |-> FALSE]
  /\ pc = "client"

(* ------------- two invocations writing the same cache file -------------- *)
MaxRaceFeed == 2
RaceNames == {db01, web01}

\* json.dumps of a str: quotes and backslashes are escaped; of None: null
Escape(s) ==
  LET RECURSIVE esc(_)
      esc(i) == IF i > Len(s) THEN << >>
                ELSE (IF s[i] \in {34, 92} THEN <<92, s[i]>> ELSE <<s[i]>>) \o esc(i + 1)
  IN  esc(1)
json_item(x) == IF x = NoneText THEN <<110, 117, 108, 108>> ELSE <<34>> \o Escape(x) \o <<34>>

\* a list at nesting level 1 under indent=2: one item per line, four spaces in
json_list(items) ==
  LET RECURSIVE lines(_)
      lines(i) == IF i > Len(items) THEN << >>
                  ELSE (IF i = 1 THEN << >> ELSE <<44>>)
                       \o <<10, 32, 32, 32, 32>> \o json_item(items[i]) \o lines(i + 1)
  IN  IF items = << >> THEN <<91, 93>>
      ELSE <<91>> \o lines(1) \o <<10, 32, 32, 93>>

\* json.dumps(self.inventory, sort_keys=True, indent=2) for the documents
\* update_cache builds: no key, or the one key "all"
dumps(doc) ==
  IF DOMAIN doc = {} THEN <<123, 125>>
  ELSE <<123, 10, 32, 32, 34, 97, 108, 108, 34, 58, 32>> \o json_list(doc["all"]) \o <<10, 125>>

\* open(path, 'w'): the file is truncated; the new descriptor is at offset 0
truncate(d) == [d EXCEPT !.text = << >>]

\* the buffered text goes out in one write at the descriptor's offset 0: it
\* replaces the bytes it covers and leaves what lies beyond them
flush(d, data, p) ==
  [text |-> [i \in 1..(IF Len(data) > Len(d.text) THEN Len(data) ELSE Len(d.text)) |->
               IF i <= Len(data) THEN data[i] ELSE d.text[i]],
   last |-> p]

InitRace ==
  /\ Init
  /\ config = RequiredSettings
  /\ files = [marker |-> [exists |-> FALSE, mtime |-> 0],
              inventory |-> [exists |-> FALSE, doc |-> EmptyDoc],
              params |-> TRUE, facts |-> TRUE]

RaceStep(p, from, to) ==
  /\ writers[p].at = from
  /\ writers' = [writers EXCEPT ![p].at = to]
  /\ UNCHANGED <<pc, args, cache_max_age, inventory, h, lpars, files, clock, io, http, trace,
                 ret, stdout, exit_code, config, runs, written>>

\* update_cache of invocation p has its inventory and calls write_to_cache
RaceEnter(p) ==
  /\ writers[p].at = "idle"
  /\ \E ok \in BOOLEAN, names \in SeqsUpTo(RaceNames, MaxRaceFeed) :
       writers' = [writers EXCEPT ![p] = [at |-> "dumps", doc |-> update_inventory(EmptyDoc, ok, Sort(names))]]
  /\ UNCHANGED <<pc, args, cache_max_age, inventory, h, lpars, files, clock, io, http, trace,
                 ret, stdout, exit_code, config, runs, written, disk>>

\* cache = open(self.cache_path_inventory, 'w')
RaceOpen(p) ==
  /\ RaceStep(p, "dumps", "open")
  /\ disk' = truncate(disk)

\* cache.write(json_data): the text waits in the file object's buffer
RaceWrite(p) ==
  /\ RaceStep(p, "open", "write")
  /\ UNCHANGED disk

\* cache.close()
RaceClose(p) ==
  /\ RaceStep(p, "write", "close")
  /\ disk' = flush(disk, dumps(writers[p].doc), p)

NextRace == \E p \in {1, 2} : RaceEnter(p) \/ RaceOpen(p) \/ RaceWrite(p) \/ RaceClose(p)

SpecRace == InitRace /\ [][NextRace]_vars

BothClosed == \A p \in {1, 2} : writers[p].at = "close"

\* C18: when two invocations refresh against the same cache path at the same
\* time, then after both have finished the inventory file holds the whole
\* document of the invocation whose write finished last, never a mixture.
C18_LastWriterWins == BothClosed => disk.text = dumps(writers[disk.last].doc)

====
